---- MODULE Spec2Model ----
(***************************************************************************)
(* Poco::Net::IPAddress (Net/src/IPAddress.cpp): the family-polymorphic    *)
(* address value type, its bitwise operators, ordering, prefix             *)
(* construction, text parsing and the BinaryWriter/BinaryReader codec.     *)
(*                                                                         *)
(* An address is a record [fam, bytes, scope]: fam is "IPv4" or "IPv6",    *)
(* bytes the raw payload (4 or 16 values in 0..255) and scope the IPv6     *)
(* zone id (0 for IPv4).  A call that may throw yields a record            *)
(* [err, val]: err = "none" and val the address, or err the exception and  *)
(* val = NoAddr.                                                           *)
(***************************************************************************)
EXTENDS Integers, Sequences, FiniteSets, TLC

VARIABLES value, stream, origin, last

vars == <<value, stream, origin, last>>

(***************************************************************************)
(* Program constants.                                                      *)
(***************************************************************************)
IN_ADDR_LEN == 4
IN6_ADDR_LEN == 16
BUF_SIZE == 16
UINT8_MAX == 255
MAX_PREFIX4 == 32
MAX_PREFIX6 == 128

(***************************************************************************)
(* Bounds of the model.                                                    *)
(***************************************************************************)
\* prefix lengths tried are 0..MaxPrefix (beyond 128, so both guards fail)
MaxPrefix == 130
\* a peer puts at most MaxPayload payload bytes after the length byte
MaxPayload == 18
\* scopes of the IPv6 inputs are 0..MaxScope, 4 and 16
MaxScope == 1

NoAddr == [fam |-> "none", bytes |-> <<>>, scope |-> 0]

Ok(a) == [err |-> "none", val |-> a]
Throw(e) == [err |-> e, val |-> NoAddr]

Min(x, y) == IF x <= y THEN x ELSE y

(***************************************************************************)
(* Byte arithmetic of the implementation classes.                          *)
(***************************************************************************)
RECURSIVE BitAnd(_, _, _)
BitAnd(x, y, k) ==
    IF k = 0 THEN 0
    ELSE ((x % 2) * (y % 2)) + 2 * BitAnd(x \div 2, y \div 2, k - 1)

RECURSIVE BitOr(_, _, _)
BitOr(x, y, k) ==
    IF k = 0 THEN 0
    ELSE (IF (x % 2) + (y % 2) > 0 THEN 1 ELSE 0) + 2 * BitOr(x \div 2, y \div 2, k - 1)

RECURSIVE BitXor(_, _, _)
BitXor(x, y, k) ==
    IF k = 0 THEN 0
    ELSE (((x % 2) + (y % 2)) % 2) + 2 * BitXor(x \div 2, y \div 2, k - 1)

\* IPv4AddressImpl / IPv6AddressImpl operator &, |, ^, ~ on the raw payload
ImplAnd(t, o) == [i \in 1..Len(t) |-> BitAnd(t[i], o[i], 8)]
ImplOr(t, o) == [i \in 1..Len(t) |-> BitOr(t[i], o[i], 8)]
ImplXor(t, o) == [i \in 1..Len(t) |-> BitXor(t[i], o[i], 8)]
ImplNot(t) == [i \in 1..Len(t) |-> UINT8_MAX - t[i]]

(***************************************************************************)
(* Constructors.                                                           *)
(***************************************************************************)
\* newIPv4(const void*): reads sizeof(in_addr) bytes at the pointer
newIPv4(buf) == [fam |-> "IPv4", bytes |-> SubSeq(buf, 1, IN_ADDR_LEN), scope |-> 0]

\* newIPv6(const void*, UInt32 scope)
newIPv6(buf, scope) == [fam |-> "IPv6", bytes |-> SubSeq(buf, 1, IN6_ADDR_LEN), scope |-> scope]

\* IPAddress()
Wildcard4 == newIPv4(<<0, 0, 0, 0>>)
Wildcard6 == newIPv6([i \in 1..IN6_ADDR_LEN |-> 0], 0)

\* IPAddress(const void* addr, poco_socklen_t length)
IPAddressRaw(buf, length) ==
    IF length = IN_ADDR_LEN THEN Ok(newIPv4(buf))
    ELSE IF length = IN6_ADDR_LEN THEN Ok(newIPv6(buf, 0))
    ELSE Throw("length")

\* IPAddress(const void* addr, poco_socklen_t length, Poco::UInt32 scope)
IPAddressRawScope(buf, length, scope) ==
    IF length = IN_ADDR_LEN THEN Ok(newIPv4(buf))
    ELSE IF length = IN6_ADDR_LEN THEN Ok(newIPv6(buf, scope))
    ELSE Throw("length")

length(a) == Len(a.bytes)

\* IPAddressImpl::scope(): 0 for IPv4, the zone id for IPv6
scope(a) == a.scope

family(a) == a.fam

\* IPAddress(const IPAddress&) and operator =
Copy(a) ==
    IF family(a) = "IPv4" THEN newIPv4(a.bytes) ELSE newIPv6(a.bytes, scope(a))

(***************************************************************************)
(* Ordering and equality.                                                  *)
(***************************************************************************)
\* std::memcmp over n bytes, compared as unsigned char: -1, 0 or 1
RECURSIVE memcmp(_, _, _)
memcmp(x, y, n) ==
    IF n = 0 THEN 0
    ELSE IF x[1] < y[1] THEN -1
    ELSE IF x[1] > y[1] THEN 1
    ELSE memcmp(Tail(x), Tail(y), n - 1)

opEq(t, a) ==
    LET l1 == length(t)
        l2 == length(a)
    IN  IF l1 = l2
        THEN IF scope(t) # scope(a) THEN FALSE
             ELSE memcmp(t.bytes, a.bytes, l1) = 0
        ELSE FALSE

opNe(t, a) == ~opEq(t, a)

opLtNoScope(t, a) ==
    LET l1 == length(t)
        l2 == length(a)
    IN  IF l1 = l2 THEN memcmp(t.bytes, a.bytes, l1) < 0 ELSE l1 < l2

opLt(t, a) ==
    LET l1 == length(t)
        l2 == length(a)
    IN  IF l1 = l2
        THEN IF scope(t) # scope(a) THEN scope(t) < scope(a)
             ELSE memcmp(t.bytes, a.bytes, l1) < 0
        ELSE l1 < l2

opLe(t, a) == ~opLt(a, t)
opGt(t, a) == opLt(a, t)
opGe(t, a) == ~opLt(t, a)

(***************************************************************************)
(* Bitwise operators.                                                      *)
(***************************************************************************)
\* the scope of the IPv6AddressImpl a binary operator returns: the left one
ImplScope(t, o) == scope(t)

opAnd(t, o) ==
    IF family(t) = family(o)
    THEN IF family(t) = "IPv4"
         THEN IPAddressRaw(ImplAnd(t.bytes, o.bytes), IN_ADDR_LEN)
         ELSE IF family(t) = "IPv6"
         THEN LET r == [bytes |-> ImplAnd(t.bytes, o.bytes), scope |-> ImplScope(t, o)]
              IN  IPAddressRawScope(r.bytes, r.scope, IN6_ADDR_LEN)
         ELSE Throw("family")
    ELSE Throw("family")

opOr(t, o) ==
    IF family(t) = family(o)
    THEN IF family(t) = "IPv4"
         THEN IPAddressRaw(ImplOr(t.bytes, o.bytes), IN_ADDR_LEN)
         ELSE IF family(t) = "IPv6"
         THEN LET r == [bytes |-> ImplOr(t.bytes, o.bytes), scope |-> ImplScope(t, o)]
              IN  IPAddressRawScope(r.bytes, r.scope, IN6_ADDR_LEN)
         ELSE Throw("family")
    ELSE Throw("family")

opXorNoCheck(t, o) ==
    IF family(t) = "IPv4"
    THEN IPAddressRaw(ImplXor(t.bytes, SubSeq(o.bytes, 1, IN_ADDR_LEN)), IN_ADDR_LEN)
    ELSE Ok(t)

opXor(t, o) ==
    IF family(t) = family(o)
    THEN IF family(t) = "IPv4"
         THEN IPAddressRaw(ImplXor(t.bytes, o.bytes), IN_ADDR_LEN)
         ELSE IF family(t) = "IPv6"
         THEN LET r == [bytes |-> ImplXor(t.bytes, o.bytes), scope |-> ImplScope(t, o)]
              IN  IPAddressRawScope(r.bytes, r.scope, IN6_ADDR_LEN)
         ELSE Throw("family")
    ELSE Throw("family")

opNot(t) ==
    IF family(t) = "IPv4"
    THEN IPAddressRaw(ImplNot(t.bytes), IN_ADDR_LEN)
    ELSE IF family(t) = "IPv6"
    THEN LET r == [bytes |-> ImplNot(t.bytes), scope |-> scope(t)]
         IN  IPAddressRawScope(r.bytes, IN6_ADDR_LEN, r.scope)
    ELSE Throw("family")

\* (a & m) | (a & ~m): the first exception thrown ends the evaluation
MaskIdentityExpr(a, m) ==
    LET l == opAnd(a, m)
        n == opNot(m)
    IN  IF l.err # "none" THEN l
        ELSE IF n.err # "none" THEN n
        ELSE LET r == opAnd(a, n.val)
             IN  IF r.err # "none" THEN r ELSE opOr(l.val, r.val)

(***************************************************************************)
(* Prefix construction and prefix length.                                  *)
(***************************************************************************)
RECURSIVE Pow2(_)
Pow2(k) == IF k = 0 THEN 1 ELSE 2 * Pow2(k - 1)

\* IPv4AddressImpl(unsigned prefix) / IPv6AddressImpl(unsigned prefix): the
\* payload whose leading prefix bits are 1 and the rest 0
ImplPrefix(prefix, len) ==
    [i \in 1..len |->
        IF prefix >= 8 * i THEN UINT8_MAX
        ELSE IF prefix <= 8 * (i - 1) THEN 0
        ELSE (UINT8_MAX + 1) - Pow2(8 * i - prefix)]

\* the number of leading 1-bits of one byte
RECURSIVE LeadingOnes(_, _)
LeadingOnes(b, k) ==
    IF k = 0 THEN 0
    ELSE IF b \div Pow2(k - 1) = 1 THEN 1 + LeadingOnes(b % Pow2(k - 1), k - 1)
    ELSE 0

\* IPAddressImpl::prefixLength(): the number of leading 1-bits of the payload
RECURSIVE ImplPrefixLength(_)
ImplPrefixLength(bytes) ==
    IF bytes = <<>> THEN 0
    ELSE IF bytes[1] = UINT8_MAX THEN 8 + ImplPrefixLength(Tail(bytes))
    ELSE LeadingOnes(bytes[1], 8)

IPAddressPrefixStrict(prefix, fam) ==
    IF fam = "IPv4"
    THEN IF prefix < MAX_PREFIX4
         THEN Ok([fam |-> "IPv4", bytes |-> ImplPrefix(prefix, IN_ADDR_LEN), scope |-> 0])
         ELSE Throw("prefix")
    ELSE IF fam = "IPv6"
    THEN IF prefix < MAX_PREFIX6
         THEN Ok([fam |-> "IPv6", bytes |-> ImplPrefix(prefix, IN6_ADDR_LEN), scope |-> 0])
         ELSE Throw("prefix")
    ELSE Throw("family")

\* IPAddress(unsigned prefix, Family family)
IPAddressPrefix(prefix, fam) ==
    IF fam = "IPv4"
    THEN IF prefix <= MAX_PREFIX4
         THEN Ok([fam |-> "IPv4", bytes |-> ImplPrefix(prefix, IN_ADDR_LEN), scope |-> 0])
         ELSE Throw("prefix")
    ELSE IF fam = "IPv6"
    THEN IF prefix <= MAX_PREFIX6
         THEN Ok([fam |-> "IPv6", bytes |-> ImplPrefix(prefix, IN6_ADDR_LEN), scope |-> 0])
         ELSE Throw("prefix")
    ELSE Throw("family")

\* IPAddress::prefixLength()
prefixLength(a) == ImplPrefixLength(a.bytes)

(***************************************************************************)
(* Text.  A text is a string; Char(s, i) is its i-th character.            *)
(***************************************************************************)
Char(s, i) == SubSeq(s, i, i)

IsSpace(c) == c \in {" ", "\t", "\n", "\r"}

\* Poco::trim: the text without its leading and trailing whitespace
RECURSIVE trim(_)
trim(s) ==
    IF s = "" THEN s
    ELSE IF IsSpace(Char(s, 1)) THEN trim(SubSeq(s, 2, Len(s)))
    ELSE IF IsSpace(Char(s, Len(s))) THEN trim(SubSeq(s, 1, Len(s) - 1))
    ELSE s

HexDigits == "0123456789abcdef"
HexDigitsUpper == "0123456789ABCDEF"

IsDigit(c) == \E i \in 1..10 : Char(HexDigits, i) = c
IsHex(c) == \E i \in 1..16 : Char(HexDigits, i) = c \/ Char(HexDigitsUpper, i) = c
HexVal(c) == (CHOOSE i \in 1..16 : Char(HexDigits, i) = c \/ Char(HexDigitsUpper, i) = c) - 1

\* the value of a text of digits in the given base
RECURSIVE Number(_, _)
Number(s, base) ==
    IF s = "" THEN 0
    ELSE base * Number(SubSeq(s, 1, Len(s) - 1), base) + HexVal(Char(s, Len(s)))

AllDigits(s) == s # "" /\ \A i \in 1..Len(s) : IsDigit(Char(s, i))
AllHex(s) == s # "" /\ \A i \in 1..Len(s) : IsHex(Char(s, i))

\* the first position of the text sep in s at or after position from, or 0
Find(s, sep, from) ==
    LET hits == {i \in from..(Len(s) - Len(sep) + 1) : SubSeq(s, i, i + Len(sep) - 1) = sep}
    IN  IF hits = {} THEN 0 ELSE CHOOSE i \in hits : \A j \in hits : i <= j

\* the pieces of s between the occurrences of the character sep
RECURSIVE Split(_, _)
Split(s, sep) ==
    LET p == Find(s, sep, 1)
    IN  IF p = 0 THEN <<s>>
        ELSE <<SubSeq(s, 1, p - 1)>> \o Split(SubSeq(s, p + 1, Len(s)), sep)

(***************************************************************************)
(* The implementation classes' parsers.  Both return the default           *)
(* (all-zero) implementation object for a text that does not parse.        *)
(***************************************************************************)
Octet(s) == AllDigits(s) /\ Len(s) <= 3 /\ Number(s, 10) <= UINT8_MAX

DottedQuad(s) ==
    LET parts == Split(s, ".")
    IN  Len(parts) = 4 /\ \A i \in 1..4 : Octet(parts[i])

QuadBytes(s) ==
    LET parts == Split(s, ".")
    IN  [i \in 1..4 |-> Number(parts[i], 10)]

\* IPv4AddressImpl()
Empty4 == <<0, 0, 0, 0>>

\* IPv4AddressImpl::parse
IPv4AddressImplParse(addr) ==
    IF DottedQuad(addr) THEN QuadBytes(addr) ELSE Empty4

Hextet(s) == AllHex(s) /\ Len(s) <= 4

\* the groups between colons: hextets, the last one possibly a dotted quad
GroupsOk(gs, quadLast) ==
    \A i \in 1..Len(gs) :
        Hextet(gs[i]) \/ (quadLast /\ i = Len(gs) /\ DottedQuad(gs[i]))

\* the number of 16-bit groups the pieces stand for
Width(gs) ==
    IF gs = <<>> THEN 0
    ELSE IF DottedQuad(gs[Len(gs)]) THEN Len(gs) + 1 ELSE Len(gs)

RECURSIVE GroupBytes(_)
GroupBytes(gs) ==
    IF gs = <<>> THEN <<>>
    ELSE (IF Hextet(gs[1])
          THEN <<Number(gs[1], 16) \div 256, Number(gs[1], 16) % 256>>
          ELSE QuadBytes(gs[1])) \o GroupBytes(Tail(gs))

Pieces(s) == IF s = "" THEN <<>> ELSE Split(s, ":")

\* the address part of an IPv6 text (what precedes the zone)
AddrPart(addr) ==
    LET z == Find(addr, "%", 1)
    IN  IF z = 0 THEN addr ELSE SubSeq(addr, 1, z - 1)

\* the zone of an IPv6 text, "" when it has none
ZonePart(addr) ==
    LET z == Find(addr, "%", 1)
    IN  IF z = 0 THEN "" ELSE SubSeq(addr, z + 1, Len(addr))

HasZone(addr) == Find(addr, "%", 1) # 0

Valid6(addr) ==
    LET a  == AddrPart(addr)
        dc == Find(a, "::", 1)
        lg == Pieces(SubSeq(a, 1, dc - 1))
        rg == Pieces(SubSeq(a, dc + 2, Len(a)))
    IN  /\ HasZone(addr) => AllDigits(ZonePart(addr)) /\ Len(ZonePart(addr)) <= 9
        /\ IF dc = 0
           THEN GroupsOk(Split(a, ":"), TRUE) /\ Width(Split(a, ":")) = 8
           ELSE /\ Find(a, "::", dc + 1) = 0
                /\ GroupsOk(lg, FALSE)
                /\ GroupsOk(rg, TRUE)
                /\ Len(lg) + Width(rg) <= 7

Bytes6(addr) ==
    LET a  == AddrPart(addr)
        dc == Find(a, "::", 1)
        lg == Pieces(SubSeq(a, 1, dc - 1))
        rg == Pieces(SubSeq(a, dc + 2, Len(a)))
        lb == GroupBytes(lg)
        rb == GroupBytes(rg)
    IN  IF dc = 0 THEN GroupBytes(Split(a, ":"))
        ELSE lb \o [i \in 1..(IN6_ADDR_LEN - Len(lb) - Len(rb)) |-> 0] \o rb

\* IPv6AddressImpl()
Empty6 == [bytes |-> [i \in 1..IN6_ADDR_LEN |-> 0], scope |-> 0]

\* IPv6AddressImpl::parse
IPv6AddressImplParse(addr) ==
    IF Valid6(addr)
    THEN [bytes |-> Bytes6(addr),
          scope |-> IF HasZone(addr) THEN Number(ZonePart(addr), 10) ELSE 0]
    ELSE Empty6

(***************************************************************************)
(* Construction from text.                                                 *)
(***************************************************************************)
\* IPAddress(const std::string& addr), IPAddress::parse
IPAddressText(addr) ==
    LET empty4 == Empty4
        addr4  == IPv4AddressImplParse(addr)
        empty6 == Empty6
        addr6  == IPv6AddressImplParse(addr)
    IN  IF addr = "" \/ trim(addr) = "0.0.0.0" THEN Ok(newIPv4(empty4))
        ELSE IF addr4 # empty4 THEN Ok(newIPv4(addr4))
        ELSE IF addr = "" \/ trim(addr) = "::" THEN Ok(newIPv6(empty6.bytes, 0))
        ELSE IF addr6 # Empty6 THEN Ok(newIPv6(addr6.bytes, addr6.scope))
        ELSE Throw("address")

\* IPAddress(const std::string& addr, Family family)
IPAddressTextFamily(addr, fam) ==
    IF fam = "IPv4"
    THEN LET addr4 == IPv4AddressImplParse(addr) IN Ok(newIPv4(addr4))
    ELSE IF fam = "IPv6"
    THEN LET addr6 == IPv6AddressImplParse(addr) IN Ok(newIPv6(addr6.bytes, addr6.scope))
    ELSE Throw("family")

\* IPAddress::tryParse(addr, result): [ok, result]
tryParse(addr, result) ==
    LET impl4 == IPv4AddressImplParse(addr)
        impl6 == IPv6AddressImplParse(addr)
    IN  IF impl4 # Empty4 \/ trim(addr) = "0.0.0.0"
        THEN [ok |-> TRUE, result |-> newIPv4(impl4)]
        ELSE IF impl6 # Empty6
        THEN [ok |-> TRUE, result |-> newIPv6(impl6.bytes, impl6.scope)]
        ELSE [ok |-> FALSE, result |-> result]

(***************************************************************************)
(* The wire codec.                                                         *)
(***************************************************************************)
wireEncodeNoLength(a) == a.bytes

\* operator << (BinaryWriter&, const IPAddress&): the bytes written
wireEncode(a) == <<length(a) % (UINT8_MAX + 1)>> \o a.bytes

\* readRaw(buf, length): the bytes taken from the stream (all, at its end)
Copied(lenByte, avail) == Min(lenByte, Len(avail))

(***************************************************************************)
(* Inputs.                                                                 *)
(***************************************************************************)
Scopes == (0..MaxScope) \cup {IN_ADDR_LEN, IN6_ADDR_LEN}

V4Payloads ==
    { <<0, 0, 0, 0>>, <<255, 255, 255, 255>>, <<10, 0, 0, 1>>,
      <<192, 168, 1, 1>>, <<255, 255, 240, 0>>, <<10, 0, 1, 0>> }

V6Payloads ==
    { [i \in 1..IN6_ADDR_LEN |-> 0],
      [i \in 1..IN6_ADDR_LEN |-> IF i = IN6_ADDR_LEN THEN 1 ELSE 0],
      [i \in 1..IN6_ADDR_LEN |-> IF i = 1 THEN 254 ELSE IF i = 2 THEN 128
                                 ELSE IF i = IN6_ADDR_LEN THEN 1 ELSE 0],
      [i \in 1..IN6_ADDR_LEN |-> IF i <= 8 THEN 255 ELSE IF i = 9 THEN 170 ELSE 0] }

V4Addrs == {newIPv4(b) : b \in V4Payloads}
V6Addrs == {newIPv6(b, s) : b \in V6Payloads, s \in Scopes}
Addrs == V4Addrs \cup V6Addrs

Families == {"IPv4", "IPv6", "other"}

Texts ==
    { "", "0.0.0.0", " 0.0.0.0 ", "192.168.1.1", "10.0.0.1 ", "1.2.3", "256.1.1.1",
      "not-an-ip", "::", " :: ", "::1", "fe80::1%4", "1:2:3:4:5:6:7:8",
      "::ffff:10.0.0.1", "1::2::3", "ff02::1:2", "::%3" }

(***************************************************************************)
(* State.  value is an IPAddress object (the left operand, the target of   *)
(* tryParse and of the decoder); stream holds the bytes between a          *)
(* BinaryWriter and a BinaryReader; origin is the address whose encoding   *)
(* the stream holds (NoAddr when a peer wrote the bytes); last is the call *)
(* in progress with its arguments and outcome, "idle" between calls.       *)
(***************************************************************************)
NoCmp == [ltAB |-> FALSE, eqAB |-> FALSE, gtAB |-> FALSE,
          ltBC |-> FALSE, ltAC |-> FALSE, neAB |-> FALSE, leAB |-> FALSE, geAB |-> FALSE]

Call(op) ==
    [op |-> op, lhs |-> NoAddr, rhs |-> NoAddr, third |-> NoAddr, text |-> "",
     fam |-> "none", num |-> 0, ret |-> NoAddr, err |-> "none", flag |-> FALSE,
     cmp |-> NoCmp, copied |-> 0, plen |-> 0]

Idle == last.op = "idle"

Init ==
    /\ value = Wildcard4
    /\ stream = <<>>
    /\ origin = NoAddr
    /\ last = Call("idle")

\* the caller takes the outcome of the call
Return ==
    /\ ~Idle
    /\ last.err # "crash"
    /\ last' = Call("idle")
    /\ UNCHANGED <<value, stream, origin>>

\* IPAddress::operator = (const IPAddress&)
Assign ==
    \E x \in Addrs :
        /\ Idle
        /\ value' = Copy(x)
        /\ last' = [Call("assign") EXCEPT !.rhs = x]
        /\ UNCHANGED <<stream, origin>>

Outcome(op, o, r) ==
    [Call(op) EXCEPT !.lhs = value, !.rhs = o, !.ret = r.val, !.err = r.err]

And ==
    \E o \in Addrs :
        /\ Idle
        /\ last' = Outcome("and", o, opAnd(value, o))
        /\ UNCHANGED <<value, stream, origin>>

Or ==
    \E o \in Addrs :
        /\ Idle
        /\ last' = Outcome("or", o, opOr(value, o))
        /\ UNCHANGED <<value, stream, origin>>

Xor ==
    \E o \in Addrs :
        /\ Idle
        /\ last' = Outcome("xor", o, opXor(value, o))
        /\ UNCHANGED <<value, stream, origin>>

Not ==
    /\ Idle
    /\ last' = Outcome("not", NoAddr, opNot(value))
    /\ UNCHANGED <<value, stream, origin>>

MaskIdentity ==
    \E m \in Addrs :
        /\ Idle
        /\ last' = Outcome("maskid", m, MaskIdentityExpr(value, m))
        /\ UNCHANGED <<value, stream, origin>>

\* value against b, b against c and value against c
Compare ==
    \E b \in Addrs, c \in Addrs :
        /\ Idle
        /\ last' = [Call("compare") EXCEPT
                      !.lhs = value, !.rhs = b, !.third = c,
                      !.cmp = [ltAB |-> opLt(value, b), eqAB |-> opEq(value, b),
                               gtAB |-> opGt(value, b), ltBC |-> opLt(b, c),
                               ltAC |-> opLt(value, c), neAB |-> opNe(value, b),
                               leAB |-> opLe(value, b), geAB |-> opGe(value, b)]]
        /\ UNCHANGED <<value, stream, origin>>

\* IPAddress(prefix, family), then prefixLength() of the address built
FromPrefix ==
    \E n \in 0..MaxPrefix, f \in Families :
        /\ Idle
        /\ LET r == IPAddressPrefix(n, f)
           IN  last' = [Call("fromPrefix") EXCEPT
                          !.num = n, !.fam = f, !.ret = r.val, !.err = r.err,
                          !.plen = IF r.err = "none" THEN prefixLength(r.val) ELSE 0]
        /\ UNCHANGED <<value, stream, origin>>

Parse ==
    \E t \in Texts :
        /\ Idle
        /\ LET r == IPAddressText(t)
           IN  last' = [Call("parse") EXCEPT !.text = t, !.ret = r.val, !.err = r.err]
        /\ UNCHANGED <<value, stream, origin>>

ParseFamily ==
    \E t \in Texts, f \in Families :
        /\ Idle
        /\ LET r == IPAddressTextFamily(t, f)
           IN  last' = [Call("parseFamily") EXCEPT
                          !.text = t, !.fam = f, !.ret = r.val, !.err = r.err]
        /\ UNCHANGED <<value, stream, origin>>

TryParse ==
    \E t \in Texts :
        /\ Idle
        /\ LET r == tryParse(t, value)
           IN  /\ value' = r.result
               /\ last' = [Call("tryParse") EXCEPT
                             !.text = t, !.lhs = value, !.flag = r.ok, !.ret = r.result]
        /\ UNCHANGED <<stream, origin>>

Next ==
    \/ Return
    \/ Assign
    \/ And
    \/ Or
    \/ Xor
    \/ Not
    \/ MaskIdentity
    \/ Compare
    \/ FromPrefix
    \/ Parse
    \/ ParseFamily
    \/ TryParse

Spec == Init /\ [][Next]_vars

(***************************************************************************)
(* The wire codec's operations.                                            *)
(***************************************************************************)
\* operator << (BinaryWriter&, const IPAddress&) of an address x
Encode ==
    \E x \in Addrs :
        /\ Idle
        /\ stream = <<>>
        /\ stream' = wireEncode(x)
        /\ origin' = x
        /\ last' = [Call("encode") EXCEPT !.rhs = x]
        /\ UNCHANGED value

\* a peer writes a length byte and the payload it announces, whole (up to
\* MaxPayload bytes) or one byte short
PeerWrite ==
    \E l \in 0..UINT8_MAX, short \in 0..1 :
        /\ Idle
        /\ stream = <<>>
        /\ Min(l, MaxPayload) >= short
        /\ stream' = <<l>> \o [i \in 1..(Min(l, MaxPayload) - short) |-> 100 + i]
        /\ origin' = NoAddr
        /\ last' = [Call("peerWrite") EXCEPT !.num = l]
        /\ UNCHANGED value

\* the values the bytes of buf that readRaw did not fill may hold
Indeterminate(lenByte, copied) ==
    IF lenByte \in {IN_ADDR_LEN, IN6_ADDR_LEN} /\ copied < lenByte THEN {0, UINT8_MAX} ELSE {0}

\* what may follow a copy that ran past the end of buf: the constructor
\* throws as if nothing had happened, the process dies, or the bytes written
\* past buf have overwritten the target
Overflowed(target, avail) ==
    { [err |-> "length", value |-> target],
      [err |-> "crash", value |-> target],
      [err |-> "length",
       value |-> [target EXCEPT !.bytes = [i \in 1..Len(target.bytes) |-> avail[BUF_SIZE + 1]]]] }

\* operator >> (BinaryReader&, IPAddress& value)
Decode ==
    /\ Idle
    /\ stream # <<>>
    /\ LET lenByte == Head(stream)
           avail   == Tail(stream)
           copied  == Copied(lenByte, avail)
           done    == [Call("decode") EXCEPT
                         !.lhs = value, !.rhs = origin, !.num = lenByte, !.copied = copied]
       IN  /\ stream' = SubSeq(avail, copied + 1, Len(avail))
           /\ origin' = NoAddr
           /\ IF copied <= BUF_SIZE
              THEN \E g \in Indeterminate(lenByte, copied) :
                     LET buf == [i \in 1..BUF_SIZE |-> IF i <= copied THEN avail[i] ELSE g]
                         r   == IPAddressRaw(buf, lenByte)
                     IN  /\ value' = IF r.err = "none" THEN Copy(r.val) ELSE value
                         /\ last' = [done EXCEPT !.err = r.err, !.ret = r.val]
              ELSE \E out \in Overflowed(value, avail) :
                     /\ value' = out.value
                     /\ last' = [done EXCEPT !.err = out.err]

WireNext ==
    \/ Return
    \/ Assign
    \/ Encode
    \/ PeerWrite
    \/ Decode

WireSpec == Init /\ [][WireNext]_vars

(***************************************************************************)
(* Properties.                                                             *)
(***************************************************************************)
Binary == {"and", "or", "xor"}

\* C1: for an address a and a mask m of the same family (IPv6 pairs with
\* equal scopes), (a & m) | (a & ~m) completes without error and yields an
\* address equal (operator ==) to a.
C1_MaskIdentity ==
    (/\ last.op = "maskid"
     /\ family(last.lhs) = family(last.rhs)
     /\ scope(last.lhs) = scope(last.rhs))
    => (last.err = "none" /\ last.ret # NoAddr /\ opEq(last.ret, last.lhs))

\* C2: a binary bitwise operator on two IPv6 operands returns an IPv6
\* address of 16 bytes whose scope is the left operand's scope; it never
\* returns an IPv4 address and never fails, whatever the scope is.
C2_IPv6ResultKeepsScope ==
    (/\ last.op \in Binary
     /\ family(last.lhs) = "IPv6"
     /\ family(last.rhs) = "IPv6")
    => (/\ last.err = "none"
        /\ family(last.ret) = "IPv6"
        /\ length(last.ret) = IN6_ADDR_LEN
        /\ scope(last.ret) = scope(last.lhs))

\* C3: decoding a stream whose length byte is neither 4 nor 16 ends in the
\* invalid-length error, and the target keeps the value it had.
C3_InvalidLengthRejected ==
    (last.op = "decode" /\ last.num \notin {IN_ADDR_LEN, IN6_ADDR_LEN})
    => (last.err = "length" /\ value = last.lhs)

\* C4: the encoding of an address is its length byte (4 or 16) followed by
\* exactly that many raw bytes, and decoding it yields an address of the
\* same family and raw bytes with scope 0.
C4_WireRoundTrip ==
    /\ origin # NoAddr
       => (/\ stream # <<>>
           /\ Head(stream) \in {IN_ADDR_LEN, IN6_ADDR_LEN}
           /\ Head(stream) = length(origin)
           /\ Tail(stream) = origin.bytes)
    /\ (last.op = "decode" /\ last.rhs # NoAddr)
       => (/\ last.err = "none"
           /\ family(value) = family(last.rhs)
           /\ value.bytes = last.rhs.bytes
           /\ scope(value) = 0
           /\ stream = <<>>)

C4_Witness ==
    /\ last.op = "decode"
    /\ family(last.rhs) = "IPv6"
    /\ scope(last.rhs) # 0
    /\ family(last.lhs) = "IPv4"
    /\ family(value) = "IPv6"
    /\ value.bytes = last.rhs.bytes
    /\ value.bytes[1] = 254
    /\ scope(value) = 0

\* x precedes y in the unsigned lexicographic order of their bytes
LexLess(x, y) ==
    \E i \in 1..Len(x) : x[i] < y[i] /\ \A j \in 1..(i - 1) : x[j] = y[j]

Count(s) == Cardinality({i \in 1..Len(s) : s[i]})

\* C5: the comparison operators define a total order: exactly one of
\* a<b, a==b, a>b holds, a<b and b<c imply a<c, addresses of different byte
\* lengths are never equal, and addresses of one length are ordered by scope
\* first and by unsigned lexicographic byte order second.
C5_TotalOrder ==
    last.op = "compare"
    => LET a == last.lhs
           b == last.rhs
           r == last.cmp
       IN  /\ Count(<<r.ltAB, r.eqAB, r.gtAB>>) = 1
           /\ (r.ltAB /\ r.ltBC) => r.ltAC
           /\ length(a) # length(b) => ~r.eqAB
           /\ length(a) = length(b)
              => /\ r.ltAB = (\/ a.scope < b.scope
                              \/ a.scope = b.scope /\ LexLess(a.bytes, b.bytes))
                 /\ r.eqAB = (a.scope = b.scope /\ a.bytes = b.bytes)
           /\ r.neAB = ~r.eqAB
           /\ r.leAB = (r.ltAB \/ r.eqAB)
           /\ r.geAB = (r.gtAB \/ r.eqAB)

C5_Witness ==
    /\ last.op = "compare"
    /\ family(last.lhs) = "IPv4"
    /\ family(last.rhs) = "IPv6"
    /\ family(last.third) = "IPv6"
    /\ scope(last.rhs) < scope(last.third)
    /\ LexLess(last.third.bytes, last.rhs.bytes)
    /\ last.cmp.ltAB /\ last.cmp.ltBC /\ last.cmp.ltAC

\* the text is an address of the family (surrounding whitespace aside)
ValidText(t, fam) ==
    IF fam = "IPv4" THEN t = "" \/ DottedQuad(trim(t))
    ELSE t = "" \/ Valid6(trim(t))

\* C6: parse(text, family) fails with the invalid-format error whenever the
\* text is not a valid address of the requested family; it never returns an
\* address for it.
C6_ParseFamilyRejects ==
    (/\ last.op = "parseFamily"
     /\ last.fam \in {"IPv4", "IPv6"}
     /\ ~ValidText(last.text, last.fam))
    => (last.err = "address" /\ last.ret = NoAddr)

\* C7: a binary bitwise operator applied to one IPv4 and one IPv6 address,
\* in either order, fails with the family error and returns no address.
C7_FamilyMismatch ==
    (last.op \in Binary /\ family(last.lhs) # family(last.rhs))
    => (last.err = "family" /\ last.ret = NoAddr)

C7_Witness ==
    /\ last.op = "xor"
    /\ family(last.lhs) = "IPv4"
    /\ family(last.rhs) = "IPv6"
    /\ last.err = "family"

\* C8: fromPrefix(n, IPv4) succeeds for n in 0..32 and fromPrefix(n, IPv6)
\* for n in 0..128, and prefixLength() of the result is n; a larger n fails
\* with the invalid-prefix error.
C8_PrefixRoundTrip ==
    (last.op = "fromPrefix" /\ last.fam \in {"IPv4", "IPv6"})
    => LET max == IF last.fam = "IPv4" THEN MAX_PREFIX4 ELSE MAX_PREFIX6
       IN  IF last.num <= max
           THEN /\ last.err = "none"
                /\ family(last.ret) = last.fam
                /\ last.plen = last.num
           ELSE last.err = "prefix" /\ last.ret = NoAddr

C8_Witness ==
    /\ last.op = "fromPrefix"
    /\ last.fam = "IPv4"
    /\ last.num = MAX_PREFIX4
    /\ last.err = "none"
    /\ last.plen = MAX_PREFIX4
    /\ last.ret.bytes = <<255, 255, 255, 255>>

\* C9: tryParse agrees with parse on every text: it returns true exactly
\* when parse does not fail, and then its result is the address parse
\* returns; when it returns false the result is left unchanged.
C9_TryParseAgrees ==
    last.op = "tryParse"
    => LET p == IPAddressText(last.text)
       IN  /\ last.flag = (p.err = "none")
           /\ last.flag => value = p.val
           /\ ~last.flag => value = last.lhs

\* C10: for every length byte read, the decoder copies at most 16 payload
\* bytes into its 16-byte buffer.
C10_CopyWithinBuffer ==
    last.op = "decode" => last.copied <= BUF_SIZE

====
